---- MODULE Spec2Model ----
(***************************************************************************)
(* Model of the GeoParquet county splitter of mihiarc/parcelpy.             *)
(*                                                                         *)
(* The repository ships the class ModernGeoParquetSplitter twice:          *)
(*   "hybrid"  src/split_geoparquet_by_county.py  (DuckDB + GeoPandas)      *)
(*   "native"  src/split_geoparquet_modern.py     (DuckDB only)             *)
(* Both are modelled; the variable impl says which one a run executes.      *)
(*                                                                         *)
(* Strings whose characters matter (county names, column names, file        *)
(* names) are sequences of one-character strings.  The empty sequence       *)
(* stands for Python's None / "" (both falsy) and for SQL NULL.             *)
(***************************************************************************)
EXTENDS Integers, Sequences, FiniteSets, TLC

\* ------------------------------------------------------------------ bounds
\* Largest number of rows of the first input file.
MaxRows == 2
\* Largest number of environment failures (I/O, engine, library) in one run.
MaxFaults == 2

\* ----------------------------------------------------------------- strings
None == << >>
NullKey == << >>

UpperChars == <<"A","B","C","D","E","F","G","H","I","J","K","L","M",
                "N","O","P","Q","R","S","T","U","V","W","X","Y","Z">>
LowerChars == <<"a","b","c","d","e","f","g","h","i","j","k","l","m",
                "n","o","p","q","r","s","t","u","v","w","x","y","z">>

\* Code-point order of the characters that occur in county names.
CharOrder == <<" ", "-", "_", "a", "b">>

\* str.lower() on one character.
LowerChar(ch) ==
    IF \E i \in 1..Len(UpperChars) : UpperChars[i] = ch
    THEN LowerChars[CHOOSE i \in 1..Len(UpperChars) : UpperChars[i] = ch]
    ELSE ch

\* str.lower()
Lower(s) == [i \in 1..Len(s) |-> LowerChar(s[i])]

\* sub in s
Contains(s, sub) ==
    \E i \in 1..(Len(s) - Len(sub) + 1) : SubSeq(s, i, i + Len(sub) - 1) = sub

\* s.replace(old, new) for a one-character old and new.
Replace(s, old, new) == [i \in 1..Len(s) |-> IF s[i] = old THEN new ELSE s[i]]

Ord(ch) == CHOOSE i \in 1..Len(CharOrder) : CharOrder[i] = ch

\* s < t in Python's string order.
RECURSIVE StrLess(_, _)
StrLess(s, t) ==
    IF t = << >> THEN FALSE
    ELSE IF s = << >> THEN TRUE
    ELSE IF s[1] # t[1] THEN Ord(s[1]) < Ord(t[1])
    ELSE StrLess(Tail(s), Tail(t))

\* sorted(S) for a set of strings.
RECURSIVE sorted(_)
sorted(S) ==
    IF S = {} THEN << >>
    ELSE LET m == CHOOSE x \in S : \A y \in S \ {x} : StrLess(x, y)
         IN  <<m>> \o sorted(S \ {m})

\* ------------------------------------------------------------ column names
PARCEL_LID == <<"P","A","R","C","E","L","_","L","I","D">>
COUNTY == <<"C","O","U","N","T","Y">>
geometry == <<"g","e","o","m","e","t","r","y">>
NAME == <<"N","A","M","E">>
OBJECTID == <<"O","B","J","E","C","T","I","D">>
gid == <<"g","i","d">>

\* Column lists of the input files the model draws from.
Schemas ==
    { <<PARCEL_LID, COUNTY, geometry>>,
      <<COUNTY, NAME, OBJECTID, gid, geometry>>,
      <<COUNTY, NAME, geometry>>,
      <<gid, PARCEL_LID, COUNTY, geometry>>,
      <<PARCEL_LID, COUNTY, NAME>> }

AuxSchemas == { <<PARCEL_LID, COUNTY, NAME>> }

\* ------------------------------------------------------------- input data
\* County names: two names that differ only in a space / hyphen.
Counties == { <<"a"," ","b">>, <<"a","-","b">> }

KeyVals == Counties \cup {NullKey}

RECURSIVE SumOver(_, _)
SumOver(f, S) ==
    IF S = {} THEN 0
    ELSE LET x == CHOOSE y \in S : TRUE IN f[x] + SumOver(f, S \ {x})

\* Row counts per COUNTY value of a file with at most n rows.
RowCounts(n) == { c \in [KeyVals -> 0..n] : SumOver(c, KeyVals) <= n }

FileA == <<"A">>
FileB == <<"B">>

\* Directory listings of the input directory (glob order) with file sizes:
\* the second file smaller than, as large as, or larger than the first.
Listings == { << >>, <<FileA>>, <<FileA, FileB>> }
SizesA == {2}
SizesB == {1, 2, 3}

FileDataA == [cols : Schemas, cnt : RowCounts(MaxRows), size : SizesA]
\* The second file is a small auxiliary table: no row, or a single row.
AuxRowCounts == { c \in [KeyVals -> {0, 1}] : \A v, w \in KeyVals : c[v] + c[w] > 1 => v = w }

FileDataB == [cols : AuxSchemas, cnt : AuxRowCounts, size : SizesB]

\* ------------------------------------------------------------------ state
VARIABLES
    impl,            \* "hybrid" or "native": which source file runs
    list_counties,   \* args.list_counties
    args_county,     \* args.county (None when not given)
    parquet_files,   \* input_dir.glob("*.parquet"), in listing order
    dataset,         \* content of each listed file: cols, cnt, size
    input_dir_exists,\* os.path.exists(args.input_dir)
    pc,              \* position of the run
    output_dir,      \* TRUE once the output root directory exists
    spatial,         \* "unset", "loaded" or "failed"
    target_county,   \* self.target_county
    main_file,       \* the largest file (None before it is chosen)
    counties,        \* the discovered partition keys
    file_idx,        \* index in parquet_files of the file being split
    todo,            \* counties of the current file still to process, sorted
    results,         \* split_file_by_county's results dict of the current file
    all_results,     \* process_all_files' all_results dict
    dirs,            \* partition subdirectories that exist under output_dir
    out_files,       \* output files on disk: path -> content
    summary,         \* content of split_summary.txt (valid once written)
    summary_writes,  \* how many times split_summary.txt has been written
    faults,          \* environment failures so far
    last,            \* what the latest loop iteration did (history)
    writers          \* path -> the (file, county) pairs that wrote it (history)

vars == <<impl, list_counties, args_county, parquet_files, dataset,
          input_dir_exists, pc, output_dir, spatial, target_county, main_file, counties, file_idx,
          todo, results, all_results, dirs, out_files, summary,
          summary_writes, faults, last, writers>>

inputs == <<impl, list_counties, args_county, parquet_files, dataset,
            input_dir_exists>>

\* ------------------------------------------------------- pure code helpers
\* 'geometry' in df.columns
HasGeometry(cols) == \E i \in 1..Len(cols) : cols[i] = geometry

HasColumn(cols, c) == \E i \in 1..Len(cols) : cols[i] = c

\* county.replace(' ', '_').replace('-', '_')
county_safe(county) == Replace(Replace(county, " ", "_"), "-", "_")

\* county_dir / f"{county_safe}_{file_stem}_{role}.parquet"
OutPath(county, file_stem, role) ==
    [dir |-> county_safe(county),
     name |-> county_safe(county) \o <<"_">> \o file_stem \o <<"_">> \o <<role>>]

geom_file(county, file_stem) == OutPath(county, file_stem, "geometry.parquet")

attr_file(county, file_stem) == OutPath(county, file_stem, "attributes.parquet")

\* 'id' in col.lower() or 'lid' in col.lower()
IsIdColumn(col) ==
    Contains(Lower(col), <<"i","d">>) \/ Contains(Lower(col), <<"l","i","d">>)

\* The columns of the geometry output of the hybrid splitter.
geometry_cols(cols) ==
    IF HasColumn(cols, PARCEL_LID)
    THEN <<PARCEL_LID, geometry>>
    ELSE LET id_cols == SelectSeq(cols, IsIdColumn)
         IN  IF id_cols # << >> THEN <<id_cols[1], geometry>> ELSE <<geometry>>

IsNotGeometry(col) == col # geometry

\* Faulty variant of drop_geometry: the geometry column is kept.
drop_geometry_keeps(cols) == cols

\* gdf.drop(columns=['geometry']); the native column list WHERE column_name != 'geometry'
drop_geometry(cols) == SelectSeq(cols, IsNotGeometry)

\* Faulty variant of duckdb_select: the WHERE clause is lost, every row is returned.
duckdb_select_unfiltered(f, county, raw) ==
    [n |-> SumOver(dataset[f].cnt, KeyVals),
     cols |-> dataset[f].cols,
     src |-> "B",
     geom |-> IF ~HasGeometry(dataset[f].cols) THEN "absent"
              ELSE IF raw THEN "bytes" ELSE "structured"]

\* The rows of file f whose COUNTY equals county, as the engine returns them:
\* SELECT * FROM read_parquet(f) WHERE COUNTY = county.  raw says whether the
\* engine hands the geometry column over as raw bytes.
duckdb_select(f, county, raw) ==
    [n |-> dataset[f].cnt[county],
     cols |-> dataset[f].cols,
     src |-> "B",
     geom |-> IF ~HasGeometry(dataset[f].cols) THEN "absent"
              ELSE IF raw THEN "bytes" ELSE "structured"]

\* Faulty variant of geopandas_filter: the in-memory filter is lost.
geopandas_filter_unfiltered(f, county) ==
    [n |-> SumOver(dataset[f].cnt, KeyVals),
     cols |-> dataset[f].cols,
     src |-> "A",
     geom |-> "structured"]

\* gpd.read_parquet(f) followed by full_gdf[full_gdf['COUNTY'] == county]
geopandas_filter(f, county) ==
    [n |-> dataset[f].cnt[county],
     cols |-> dataset[f].cols,
     src |-> "A",
     geom |-> "structured"]

\* SELECT COUNT(*) FROM read_parquet(f) WHERE COUNTY = county
count_query(f, county) == dataset[f].cnt[county]

\* gpd.read_parquet raises on a file without geometry metadata, and whenever
\* the environment makes the read fail.
read_parquet_fails(f, fp, flt) == ~HasGeometry(dataset[f].cols) \/ fp \in flt

read_parquet_hit(f, fp, flt) ==
    IF HasGeometry(dataset[f].cols) /\ fp \in flt THEN {fp} ELSE {}

\* ------------------------------------------- hybrid splitter: one iteration
\* Failures the environment can cause in one loop iteration of the hybrid
\* split_file_by_county, named after the call that raises.
HybridFaults ==
    {"mkdir", "duckdb_query", "read_parquet", "read_parquet_except",
     "geometry_valid", "to_parquet_geom", "to_parquet_attr"}

NoRows == [n |-> 0, cols |-> << >>, src |-> "none", geom |-> "absent"]

Extracted(st, sub, hit, a, b) ==
    [status |-> st, sub |-> sub, hit |-> hit, pathA |-> a, pathB |-> b]

\* The except-branch of the geometry conversion: read the whole file with
\* GeoPandas and filter it in memory.
hybrid_geometry_fallback(f, county, flt, hit, a) ==
    IF read_parquet_fails(f, "read_parquet_except", flt)
    THEN Extracted("error", NoRows,
                   hit \cup read_parquet_hit(f, "read_parquet_except", flt), a + 1, 1)
    ELSE Extracted("ok", geopandas_filter(f, county), hit, a + 1, 1)

\* Faulty variant of hybrid_extract_pinned: a raw-bytes geometry column is wrapped as
\* it is instead of being re-read through GeoPandas.
hybrid_extract_pinned_keeps_bytes(f, county, flt, raw) ==
    LET df == duckdb_select(f, county, raw)
    IN  IF "duckdb_query" \in flt
        THEN Extracted("error", NoRows, {"duckdb_query"}, 0, 1)
        ELSE IF df.n = 0
        THEN Extracted("empty", NoRows, {}, 0, 1)
        ELSE IF ~HasGeometry(df.cols)
        THEN Extracted("ok", df, {}, 0, 1)
        ELSE IF "geometry_valid" \in flt
        THEN hybrid_geometry_fallback(f, county, flt, {"geometry_valid"}, 0)
        ELSE Extracted("ok", df, {}, 0, 1)

\* target_county given: engine-side filtered query, then conversion of the
\* geometry column, with the GeoPandas fallback.
hybrid_extract_pinned(f, county, flt, raw) ==
    LET df == duckdb_select(f, county, raw)
    IN  IF "duckdb_query" \in flt
        THEN Extracted("error", NoRows, {"duckdb_query"}, 0, 1)
        ELSE IF df.n = 0
        THEN Extracted("empty", NoRows, {}, 0, 1)
        ELSE IF ~HasGeometry(df.cols)
        THEN Extracted("ok", df, {}, 0, 1)
        ELSE IF df.geom = "bytes"
        THEN IF read_parquet_fails(f, "read_parquet", flt)
             THEN hybrid_geometry_fallback(f, county, flt,
                      read_parquet_hit(f, "read_parquet", flt), 1)
             ELSE Extracted("ok", geopandas_filter(f, county), {}, 1, 1)
        ELSE IF "geometry_valid" \in flt
        THEN hybrid_geometry_fallback(f, county, flt, {"geometry_valid"}, 0)
        ELSE Extracted("ok", df, {}, 0, 1)

\* Faulty variant of hybrid_extract_all: a failed GeoPandas read is an error of
\* the pair, with no engine-side query after it.
hybrid_extract_all_no_fallback(f, county, flt, raw) ==
    IF read_parquet_fails(f, "read_parquet", flt)
    THEN Extracted("error", NoRows, read_parquet_hit(f, "read_parquet", flt), 1, 0)
    ELSE Extracted("ok", geopandas_filter(f, county), {}, 1, 0)

\* No target_county: read the whole file with GeoPandas and filter it; when
\* the read fails, fall back to the engine-side filtered query.
hybrid_extract_all(f, county, flt, raw) ==
    IF read_parquet_fails(f, "read_parquet", flt)
    THEN IF "duckdb_query" \in flt
         THEN Extracted("error", NoRows,
                  read_parquet_hit(f, "read_parquet", flt) \cup {"duckdb_query"}, 1, 1)
         ELSE Extracted("ok", duckdb_select(f, county, raw),
                  read_parquet_hit(f, "read_parquet", flt), 1, 1)
    ELSE Extracted("ok", geopandas_filter(f, county), {}, 1, 0)

\* The extraction part of the try block, up to `if len(gdf) == 0: continue`.
hybrid_extract(f, county, flt, raw) ==
    LET e == IF target_county # None
             THEN hybrid_extract_pinned(f, county, flt, raw)
             ELSE hybrid_extract_all(f, county, flt, raw)
    IN  IF e.status = "ok" /\ e.sub.n = 0
        THEN Extracted("empty", NoRows, e.hit, e.pathA, e.pathB)
        ELSE e

Written(path, sub, cols) ==
    [path |-> path, rows |-> sub.n, cols |-> cols, src |-> sub.src,
     geom |-> IF HasGeometry(cols) THEN sub.geom ELSE "absent"]

Saved(failed, writes, hit) == [failed |-> failed, writes |-> writes, hit |-> hit]

\* _create_geometry_and_attributes: the geometry file, then the attribute file.
create_geometry_and_attributes(gdf, county, file_stem, flt) ==
    LET g == Written(geom_file(county, file_stem), gdf, geometry_cols(gdf.cols))
        a == Written(attr_file(county, file_stem), gdf, drop_geometry(gdf.cols))
    IN  IF "to_parquet_geom" \in flt THEN Saved(TRUE, << >>, {"to_parquet_geom"})
        ELSE IF "to_parquet_attr" \in flt THEN Saved(TRUE, <<g>>, {"to_parquet_attr"})
        ELSE Saved(FALSE, <<g, a>>, {})

\* _save_attributes_only
save_attributes_only(gdf, county, file_stem, flt) ==
    LET a == Written(attr_file(county, file_stem), gdf, drop_geometry(gdf.cols))
    IN  IF "to_parquet_attr" \in flt THEN Saved(TRUE, << >>, {"to_parquet_attr"})
        ELSE Saved(FALSE, <<a>>, {})

\* What one iteration of the loop does after county_dir.mkdir succeeded:
\* recorded says whether results[county] is assigned, and count to what.
Iteration(st, recorded, count, writes, hit, a, b) ==
    [status |-> st, recorded |-> recorded, count |-> count, writes |-> writes,
     hit |-> hit, pathA |-> a, pathB |-> b]

\* isinstance(df.geometry.iloc[0], (bytes, bytearray)) was evaluated and true.
path_b_returned_bytes(f, county, flt, raw) ==
    /\ impl = "hybrid"
    /\ target_county # None
    /\ "duckdb_query" \notin flt
    /\ duckdb_select(f, county, raw).n > 0
    /\ duckdb_select(f, county, raw).geom = "bytes"

hybrid_iteration(f, county, is_main, flt, raw) ==
    LET e == hybrid_extract(f, county, flt, raw)
    IN  IF e.status = "error"
        THEN Iteration("error", TRUE, 0, << >>, e.hit, e.pathA, e.pathB)
        ELSE IF e.status = "empty"
        THEN Iteration("empty", FALSE, 0, << >>, e.hit, e.pathA, e.pathB)
        ELSE LET s == IF is_main /\ HasGeometry(e.sub.cols)
                      THEN create_geometry_and_attributes(e.sub, county, f, flt)
                      ELSE save_attributes_only(e.sub, county, f, flt)
             IN  IF s.failed
                 THEN Iteration("error", TRUE, 0, s.writes, e.hit \cup s.hit,
                                e.pathA, e.pathB)
                 ELSE Iteration("ok", TRUE, e.sub.n, s.writes, e.hit,
                                e.pathA, e.pathB)

\* ------------------------------------------- native splitter: one iteration
NativeFaults ==
    {"mkdir", "describe", "copy_geom", "columns_query", "copy_attr", "count_query"}

\* _check_geometry_column: any exception of the DESCRIBE query reads as False.
check_geometry_column(f, flt) ==
    IF "describe" \in flt THEN FALSE ELSE HasGeometry(dataset[f].cols)

\* _create_geometry_and_attributes_native: COPY of PARCEL_LID and geometry,
\* column list, COPY of the other columns, COUNT(*).
create_geometry_and_attributes_native(f, county, flt, hit) ==
    LET sub == duckdb_select(f, county, FALSE)
        g == Written(geom_file(county, f), sub, <<PARCEL_LID, geometry>>)
        a == Written(attr_file(county, f), sub, drop_geometry(sub.cols))
    IN  IF "copy_geom" \in flt
        THEN Iteration("error", TRUE, 0, << >>, hit \cup {"copy_geom"}, 0, 1)
        ELSE IF ~HasColumn(sub.cols, PARCEL_LID)
        THEN Iteration("error", TRUE, 0, << >>, hit, 0, 1)
        ELSE IF "columns_query" \in flt
        THEN Iteration("error", TRUE, 0, <<g>>, hit \cup {"columns_query"}, 0, 1)
        ELSE IF "copy_attr" \in flt
        THEN Iteration("error", TRUE, 0, <<g>>, hit \cup {"copy_attr"}, 0, 1)
        ELSE IF "count_query" \in flt
        THEN Iteration("error", TRUE, 0, <<g, a>>, hit \cup {"count_query"}, 0, 1)
        ELSE Iteration("ok", TRUE, count_query(f, county), <<g, a>>, hit, 0, 1)

\* _save_attributes_only_native: column list, COPY, COUNT(*).
save_attributes_only_native(f, county, flt, hit) ==
    LET sub == duckdb_select(f, county, FALSE)
        a == Written(attr_file(county, f), sub, drop_geometry(sub.cols))
    IN  IF "columns_query" \in flt
        THEN Iteration("error", TRUE, 0, << >>, hit \cup {"columns_query"}, 0, 1)
        ELSE IF "copy_attr" \in flt
        THEN Iteration("error", TRUE, 0, << >>, hit \cup {"copy_attr"}, 0, 1)
        ELSE IF "count_query" \in flt
        THEN Iteration("error", TRUE, 0, <<a>>, hit \cup {"count_query"}, 0, 1)
        ELSE Iteration("ok", TRUE, count_query(f, county), <<a>>, hit, 0, 1)

native_iteration(f, county, is_main, flt) ==
    LET hit == IF "describe" \in flt THEN {"describe"} ELSE {}
    IN  IF is_main /\ check_geometry_column(f, flt)
        THEN create_geometry_and_attributes_native(f, county, flt, hit)
        ELSE save_attributes_only_native(f, county, flt, hit)

\* ------------------------------------------------------------ run helpers
\* max(parquet_files, key=lambda f: f.stat().st_size): the first largest file.
largest_file(files) ==
    LET i == CHOOSE k \in 1..Len(files) :
                 /\ \A j \in 1..Len(files) : dataset[files[j]].size <= dataset[files[k]].size
                 /\ \A j \in 1..(k - 1) : dataset[files[j]].size < dataset[files[k]].size
    IN  files[i]

\* SELECT DISTINCT COUNTY FROM read_parquet(f) WHERE COUNTY IS NOT NULL
discover_counties(f) ==
    { c \in KeyVals : c # NullKey /\ dataset[f].cnt[c] > 0 }

\* Faulty variant of validate_target_county: every target passes.
validate_accepts_all(available_counties) == TRUE

validate_target_county(available_counties) ==
    ~(target_county # None /\ target_county \notin available_counties)

\* {self.target_county} if self.target_county else counties
counties_to_process(cs) == IF target_county # None THEN {target_county} ELSE cs

EmptyDict == [x \in {} |-> 0]

\* results[county] = count
DictSet(d, k, v) == [x \in DOMAIN d \cup {k} |-> IF x = k THEN v ELSE d[x]]

\* Which loop iterations wrote which path: the pair is added to the writers
\* of every path of `writes`.
WrittenBy(ws, writes, pair) ==
    LET paths == { writes[i].path : i \in 1..Len(writes) }
    IN  [p \in DOMAIN ws \cup paths |->
            (IF p \in DOMAIN ws THEN ws[p] ELSE {})
            \cup (IF p \in paths THEN {pair} ELSE {})]

RECURSIVE WriteAll(_, _)
WriteAll(fs, writes) ==
    IF writes = << >> THEN fs
    ELSE WriteAll(DictSet(fs, Head(writes).path, Head(writes)), Tail(writes))

\* Faulty variant of file_total: the number of counties, not of records.
file_total_counts_keys(county_results) == Cardinality(DOMAIN county_results)

\* sum(county_results.values())
file_total(county_results) == SumOver(county_results, DOMAIN county_results)

RECURSIVE total_records(_, _)
total_records(res, fs) ==
    IF fs = {} THEN 0
    ELSE LET f == CHOOSE x \in fs : TRUE
         IN  file_total(res[f]) + total_records(res, fs \ {f})

\* The content of split_summary.txt.
summary_report(res) ==
    [title |-> target_county,
     files |-> [f \in DOMAIN res |-> [counts |-> res[f], total |-> file_total(res[f])]],
     grand_total |-> total_records(res, DOMAIN res)]

NoIteration ==
    [file |-> None, county |-> None, is_main |-> FALSE, status |-> "none",
     bytes |-> FALSE, recorded |-> FALSE, count |-> 0, writes |-> << >>,
     hit |-> {}, pathA |-> 0, pathB |-> 0]

NoSummary == [title |-> None, files |-> EmptyDict, grand_total |-> 0]

\* ------------------------------------------------------------------ Init
\* The file contents a listing can have.
Datasets(listing) ==
    IF listing = << >> THEN {EmptyDict}
    ELSE IF listing = <<FileA>> THEN { (FileA :> a) : a \in FileDataA }
    ELSE { (FileA :> a) @@ (FileB :> b) : a \in FileDataA, b \in FileDataB }

\* State when main() has parsed its arguments.  Listing mode ignores
\* --county, and a missing input directory lists nothing.
Init ==
    /\ impl \in {"hybrid", "native"}
    /\ list_counties \in BOOLEAN
    /\ args_county \in (IF list_counties THEN {None} ELSE Counties \cup {None})
    /\ input_dir_exists \in BOOLEAN
    /\ parquet_files \in (IF input_dir_exists THEN Listings ELSE {<< >>})
    /\ dataset \in Datasets(parquet_files)
    /\ pc = "main"
    /\ output_dir = FALSE
    /\ spatial = "unset"
    /\ target_county = None
    /\ main_file = None
    /\ counties = {}
    /\ file_idx = 0
    /\ todo = << >>
    /\ results = EmptyDict
    /\ all_results = EmptyDict
    /\ dirs = {}
    /\ out_files = EmptyDict
    /\ summary = NoSummary
    /\ summary_writes = 0
    /\ faults = 0
    /\ last = NoIteration
    /\ writers = EmptyDict

\* --------------------------------------------------------------- actions
\* main(): the input directory does not exist -> sys.exit(1).
ExitNoInputDir ==
    /\ pc = "main"
    /\ ~input_dir_exists
    /\ pc' = "exited"
    /\ UNCHANGED <<inputs, output_dir, spatial, target_county, main_file, counties,
                   file_idx, todo, results, all_results, dirs, out_files, summary,
                   summary_writes, faults, last, writers>>

\* Faulty variant of setup_raises: the failure is swallowed in both splitters.
setup_swallows(fail) == FALSE

\* Does a failure of INSTALL/LOAD spatial leave __init__ by an exception?
\* hybrid: caught and logged as a warning.  native: _setup_duckdb re-raises.
setup_raises(fail) == fail /\ impl = "native"

\* ModernGeoParquetSplitter.__init__: output directory, connection, spatial
\* extension.  Listing mode constructs the splitter with the default output
\* directory and no target county.
Construct ==
    /\ pc = "main"
    /\ input_dir_exists
    /\ \E fail \in BOOLEAN :
        /\ fail => faults < MaxFaults
        /\ output_dir' = TRUE
        /\ target_county' = (IF list_counties THEN None ELSE args_county)
        /\ spatial' = (IF fail THEN "failed" ELSE "loaded")
        /\ faults' = (IF fail THEN faults + 1 ELSE faults)
        /\ pc' = (IF setup_raises(fail) THEN "crashed" ELSE "constructed")
    /\ UNCHANGED <<inputs, main_file, counties, file_idx, todo, results,
                   all_results, dirs, out_files, summary, summary_writes, last,
                   writers>>

\* main() with --list-counties: discovery on the largest file, print, return.
ListCounties ==
    /\ pc = "constructed"
    /\ list_counties
    /\ \E fail \in BOOLEAN :
        /\ fail => faults < MaxFaults /\ parquet_files # << >>
        /\ IF parquet_files = << >>
           THEN /\ pc' = "listed"
                /\ UNCHANGED <<main_file, counties, faults>>
           ELSE /\ main_file' = largest_file(parquet_files)
                /\ faults' = (IF fail THEN faults + 1 ELSE faults)
                /\ counties' = (IF fail THEN counties
                                ELSE discover_counties(largest_file(parquet_files)))
                /\ pc' = (IF fail THEN "crashed" ELSE "listed")
    /\ UNCHANGED <<inputs, output_dir, spatial, target_county, file_idx, todo,
                   results, all_results, dirs, out_files, summary, summary_writes,
                   last, writers>>

\* process_all_files up to the first call of split_file_by_county: listing,
\* discovery on the largest file, validation of the target county.
StartProcessing ==
    /\ pc = "constructed"
    /\ ~list_counties
    /\ \E fail \in BOOLEAN :
        /\ fail => faults < MaxFaults /\ parquet_files # << >>
        /\ IF parquet_files = << >>
           THEN /\ pc' = "aborted"
                /\ UNCHANGED <<main_file, counties, faults, file_idx, todo>>
           ELSE LET m == largest_file(parquet_files)
                    cs == discover_counties(m)
                IN  /\ main_file' = m
                    /\ faults' = (IF fail THEN faults + 1 ELSE faults)
                    /\ IF fail
                       THEN /\ pc' = "crashed"
                            /\ UNCHANGED <<counties, file_idx, todo>>
                       ELSE /\ counties' = cs
                            /\ IF cs = {} \/ ~validate_target_county(cs)
                               THEN /\ pc' = "aborted"
                                    /\ UNCHANGED <<file_idx, todo>>
                               ELSE /\ pc' = "splitting"
                                    /\ file_idx' = 1
                                    /\ todo' = sorted(counties_to_process(cs))
    /\ UNCHANGED <<inputs, output_dir, spatial, target_county, results,
                   all_results, dirs, out_files, summary, summary_writes, last,
                   writers>>

\* One iteration of `for county in sorted(counties_to_process)` in
\* split_file_by_county: county_dir.mkdir, which stands before the try block
\* (its exception leaves split_file_by_county and process_all_files), then
\* the try block with its except clause.
ProcessCounty ==
    /\ pc = "splitting"
    /\ todo # << >>
    /\ LET f == parquet_files[file_idx]
           county == Head(todo)
           is_main == (f = main_file)
       IN  \E flt \in SUBSET (IF impl = "hybrid" THEN HybridFaults ELSE NativeFaults),
              raw \in BOOLEAN :
            /\ Cardinality(flt) <= MaxFaults - faults
            /\ IF "mkdir" \in flt
               THEN /\ faults' = faults + 1
                    /\ pc' = "crashed"
                    /\ last' = [file |-> f, county |-> county,
                                is_main |-> is_main, bytes |-> FALSE,
                                status |-> "raised", recorded |-> FALSE,
                                count |-> 0, writes |-> << >>,
                                hit |-> {"mkdir"}, pathA |-> 0, pathB |-> 0]
                    /\ UNCHANGED <<results, todo>>
                    /\ UNCHANGED <<dirs, out_files, writers>>
               ELSE LET it == IF impl = "hybrid"
                              THEN hybrid_iteration(f, county, is_main, flt, raw)
                              ELSE native_iteration(f, county, is_main, flt)
                    IN  /\ dirs' = dirs \cup {county_safe(county)}
                        /\ out_files' = WriteAll(out_files, it.writes)
                        /\ writers' = WrittenBy(writers, it.writes, <<f, county>>)
                        /\ results' = (IF it.recorded
                                       THEN DictSet(results, county, it.count)
                                       ELSE results)
                        /\ todo' = Tail(todo)
                        /\ faults' = faults + Cardinality(it.hit)
                        /\ pc' = pc
                        /\ last' = [file |-> f, county |-> county,
                                    is_main |-> is_main,
                                    bytes |-> path_b_returned_bytes(f, county, flt, raw)]
                                   @@ it
    /\ UNCHANGED <<inputs, output_dir, spatial, target_county, main_file,
                   counties, file_idx, all_results, summary, summary_writes>>

\* split_file_by_county returns: all_results[file_path.name] = results, then
\* the next file's loop starts, or the loop over the files ends.
ReturnResults ==
    /\ pc = "splitting"
    /\ todo = << >>
    /\ all_results' = DictSet(all_results, parquet_files[file_idx], results)
    /\ results' = EmptyDict
    /\ IF file_idx < Len(parquet_files)
       THEN /\ file_idx' = file_idx + 1
            /\ todo' = sorted(counties_to_process(counties))
            /\ pc' = pc
       ELSE /\ pc' = "summarizing"
            /\ UNCHANGED <<file_idx, todo>>
    /\ UNCHANGED <<inputs, output_dir, spatial, target_county, main_file,
                   counties, dirs, out_files, summary, summary_writes, faults, last,
                   writers>>

\* create_summary_report, then process_all_files returns.
CreateSummary ==
    /\ pc = "summarizing"
    /\ \E fail \in BOOLEAN :
        /\ fail => faults < MaxFaults
        /\ IF fail
           THEN /\ pc' = "crashed"
                /\ faults' = faults + 1
                /\ UNCHANGED <<summary, summary_writes>>
           ELSE /\ summary' = summary_report(all_results)
                /\ summary_writes' = summary_writes + 1
                /\ pc' = "done"
                /\ UNCHANGED faults
    /\ UNCHANGED <<inputs, output_dir, spatial, target_county, main_file,
                   counties, file_idx, todo, results, all_results, dirs,
                   out_files, last, writers>>

Next ==
    \/ ExitNoInputDir
    \/ Construct
    \/ ListCounties
    \/ StartProcessing
    \/ ProcessCounty
    \/ ReturnResults
    \/ CreateSummary

Spec == Init /\ [][Next]_vars

\* ================================================================ claims
\* The results dict of file f: all_results[f] once split_file_by_county has
\* returned for f, the dict being filled before that.
ResultsOf(f) == IF f \in DOMAIN all_results THEN all_results[f] ELSE results

NoOutputWritten == dirs = {} /\ DOMAIN out_files = {} /\ summary_writes = 0

RowsOfLast == dataset[last.file].cnt[last.county]

LastProcessed == last.status \in {"ok", "empty", "error"}

\* The requested county is not among the counties of the largest file.
InvalidTarget ==
    /\ target_county # None
    /\ parquet_files # << >>
    /\ discover_counties(largest_file(parquet_files)) # {}
    /\ target_county \notin discover_counties(largest_file(parquet_files))

\* C1: when the requested county is not in the set discovered from the main
\* file, the run never enters split_file_by_county: no partition
\* subdirectory, no geometry or attribute file and no summary exist, and no
\* loop iteration has run.
C1_InvalidTargetAborts ==
    InvalidTarget =>
        /\ NoOutputWritten
        /\ last.status = "none"
        /\ pc \in {"constructed", "aborted", "crashed"}

C1_Witness == InvalidTarget /\ pc = "aborted" /\ counties # {} /\ output_dir

\* C2 (as claimed): for every processed (file, county) pair with zero
\* matching rows, the file's result mapping has an entry 0 for the county, the
\* iteration wrote no file, and the run goes on.
C2_ZeroRowsRecordedZeroNoFiles ==
    (LastProcessed /\ RowsOfLast = 0) =>
        /\ last.county \in DOMAIN ResultsOf(last.file)
        /\ ResultsOf(last.file)[last.county] = 0
        /\ last.writes = << >>
        /\ pc # "crashed"

\* C3 (as claimed): every failure of one (file, county) pair, the creation of
\* its partition subdirectory included, is absorbed: the county is recorded
\* with count 0 and the run is not ended by it.
C3_EveryPairFailureAbsorbed ==
    last.status \in {"error", "raised"} =>
        /\ last.county \in DOMAIN ResultsOf(last.file)
        /\ ResultsOf(last.file)[last.county] = 0
        /\ last.status # "raised"

Stopped == pc \in {"exited", "aborted", "crashed", "listed", "done"}

\* C4 (as claimed): a run that has stopped either stopped during
\* discovery/validation with no output, or every input file's loop over the
\* counties ran to its end; no failure of a pair stops the run in between.
C4_AbortEarlyOrAllPairs ==
    (Stopped /\ ~list_counties) =>
        \/ file_idx = 0 /\ NoOutputWritten
        \/ /\ DOMAIN all_results = {parquet_files[i] : i \in 1..Len(parquet_files)}
           /\ pc = "done" => summary_writes = 1

NonNullRows(f) == SumOver(dataset[f].cnt, KeyVals \ {NullKey})

Recorded(f, k) == IF k \in DOMAIN all_results[f] THEN all_results[f][k] ELSE 0

\* Sum over the discovered counties of the counts recorded for file f.
RecordedSum(f) == SumOver([k \in counties |-> Recorded(f, k)], counties)

\* No pair of file f ended in an exception (a failed pair is recorded as 0).
FileClean(f) ==
    \A k \in DOMAIN all_results[f] :
        all_results[f][k] = 0 => dataset[f].cnt[k] = 0

RoleOf(path) == path.name[Len(path.name)]

\* C7: no attribute file on disk contains the geometry column; every
\* geometry file holds the geometry column alone, or one identifier column
\* (PARCEL_LID, or a column whose lowercased name contains "id") followed by
\* the geometry column.
C7_ColumnDisjointness ==
    \A p \in DOMAIN out_files :
        LET c == out_files[p].cols
        IN  /\ RoleOf(p) = "attributes.parquet" => ~HasGeometry(c)
            /\ RoleOf(p) = "geometry.parquet" =>
                  \/ c = <<geometry>>
                  \/ /\ Len(c) = 2
                     /\ c[2] = geometry
                     /\ c[1] # geometry
                     /\ c[1] = PARCEL_LID \/ IsIdColumn(c[1])

C7_Witness ==
    /\ last.status = "ok"
    /\ Len(last.writes) = 2
    /\ \A i \in 1..2 : last.writes[i].path \in DOMAIN out_files
    /\ Len(out_files[last.writes[1].path].cols) = 2
    /\ Len(dataset[last.file].cols) > 3

ExpectedGeometryCols(cols) ==
    IF \E i \in 1..Len(cols) : cols[i] = PARCEL_LID
    THEN <<PARCEL_LID, geometry>>
    ELSE IF \E i \in 1..Len(cols) : Contains(Lower(cols[i]), <<"i","d">>)
    THEN LET k == CHOOSE i \in 1..Len(cols) :
                      /\ Contains(Lower(cols[i]), <<"i","d">>)
                      /\ \A j \in 1..(i - 1) : ~Contains(Lower(cols[j]), <<"i","d">>)
         IN  <<cols[k], geometry>>
    ELSE <<geometry>>

\* C9 (as claimed): for every pair of the main file with geometry and
\* matching rows that meets no environment failure, the pair is written and
\* its geometry file holds PARCEL_LID when the file has it, else the first
\* column whose lowercased name contains "id", else the geometry alone.
C9_IdentifierResolution ==
    (/\ LastProcessed
     /\ last.is_main
     /\ HasGeometry(dataset[last.file].cols)
     /\ RowsOfLast > 0
     /\ last.hit = {}) =>
        /\ last.status = "ok"
        /\ geom_file(last.county, last.file) \in DOMAIN out_files
        /\ out_files[geom_file(last.county, last.file)].cols
              = ExpectedGeometryCols(dataset[last.file].cols)

\* C10 (as claimed): once the spatial extension failed to load, no partition
\* subdirectory, no output file and no summary is ever written.
C10_SpatialFailureAborts == spatial = "failed" => NoOutputWritten

\* C10 (amended): that holds of the native splitter, whose _setup_duckdb
\* re-raises; the run ends in __init__.
C10_NativeSpatialFailureAborts ==
    (spatial = "failed" /\ impl = "native") =>
        /\ NoOutputWritten
        /\ pc = "crashed"
        /\ last.status = "none"

C10_Witness == spatial = "failed" /\ impl = "native" /\ pc = "crashed" /\ output_dir

\* C11: listing mode (--list-counties) is read-only: once the keys are listed
\* the run has left the file system as it found it: no output root directory,
\* no partition subdirectory, no output file and no summary has been created.
C11_ListingLeavesFileSystemUnchanged ==
    (list_counties /\ pc = "listed") => (~output_dir /\ NoOutputWritten)

\* C12: the run summary is written at most once, and exactly once by a run
\* that completes; when it is written every input file has been processed;
\* a run that aborted or crashed has written none; each per-file total is
\* the sum of that file's recorded per-key counts and the grand total is the
\* sum of the per-file totals over all input files.
C12_SummaryOnceWithTotals ==
    LET files == { parquet_files[i] : i \in 1..Len(parquet_files) }
        totals == [f \in DOMAIN summary.files |-> summary.files[f].total]
    IN  /\ summary_writes <= 1
        /\ (pc = "done") <=> (summary_writes = 1)
        /\ pc \in {"exited", "aborted", "crashed", "listed"} => summary_writes = 0
        /\ summary_writes = 1 =>
              /\ DOMAIN all_results = files
              /\ DOMAIN summary.files = files
              /\ \A f \in files :
                    /\ summary.files[f].counts = all_results[f]
                    /\ summary.files[f].total
                         = SumOver(all_results[f], DOMAIN all_results[f])
              /\ summary.grand_total = SumOver(totals, DOMAIN totals)

\* A completed run over two files whose summary holds a file with two
\* counties of positive count.
C12_Witness ==
    /\ pc = "done"
    /\ summary_writes = 1
    /\ Len(parquet_files) = 2
    /\ \E f \in DOMAIN summary.files :
          /\ summary.files[f].total > 1
          /\ \A k \in Counties :
                k \in DOMAIN summary.files[f].counts /\ summary.files[f].counts[k] > 0
    /\ summary.grand_total > 2

\* C13: for each (file, county) pair each extraction path is attempted at
\* most once: the engine-side query (Path B) once, and the full GeoPandas
\* load (Path A) at most once, whatever failures occur.
C13_EachPathAtMostOnce ==
    /\ last.pathA <= 1
    /\ last.pathB <= 1

\* The full GeoPandas load (Path A) was attempted for the latest pair and an
\* attempt of it failed: the file has no geometry metadata, or the read raised.
C14_PathAFailed ==
    /\ impl = "hybrid"
    /\ last.pathA >= 1
    /\ \/ ~HasGeometry(dataset[last.file].cols)
       \/ "read_parquet" \in last.hit
       \/ "read_parquet_except" \in last.hit

C14_RecordedFailed ==
    /\ last.status = "error"
    /\ last.recorded
    /\ last.count = 0
    /\ last.writes = << >>

C15_RolesWritten == { RoleOf(last.writes[i].path) : i \in 1..Len(last.writes) }

\* C15: a pair leaves a geometry file on disk only together with its
\* attribute file and a positive recorded count; a pair recorded with count
\* 0 after a failure leaves no output file on disk.
C15_GeometryOnlyWithAttributesAndCount ==
    /\ "geometry.parquet" \in C15_RolesWritten =>
          /\ "attributes.parquet" \in C15_RolesWritten
          /\ last.recorded
          /\ last.count > 0
    /\ (last.status = "error" /\ last.recorded /\ last.count = 0) =>
          last.writes = << >>

\* C16: within one run, two distinct (file, county) pairs never write the
\* same output path: no output file is written by more than one pair, so
\* none is overwritten by another pair's output.
C16_NoPathSharedByTwoPairs ==
    \A p \in DOMAIN writers : Cardinality(writers[p]) <= 1
====
